---- MODULE Spec2Model ----
(***************************************************************************)
(* Model of tables/quick/improve_quick5.py: the reader that splits the     *)
(* input file into head / table / tail, the duplicate merge, the pass      *)
(* over the table that sets the weight of the one- and two-letter          *)
(* non-"x" spellings to 900, the diagnostics interleaved with that pass,   *)
(* and the writer that serialises head, sorted table and tail.             *)
(*                                                                         *)
(* Strings are sequences of Unicode code points; a file is a sequence of   *)
(* lines, each line a string that ends with the newline (10).              *)
(* logging.info calls change no state of the program and are not modelled; *)
(* logging.warning calls are recorded in `warnings`.                       *)
(***************************************************************************)
EXTENDS Integers, Sequences, FiniteSets, TLC

VARIABLES
    inputfile,      \* the lines of the input file (never modified)
    lineno,         \* index of the next line the `for line in inputfile` loop yields
    head,           \* List[str]
    tail,           \* List[str]
    table,          \* the dict, in insertion order: a sequence of entries
    reading_head,
    reading_table,
    warnings,       \* the logging.warning calls, in order
    IMPORT_CHINESE_VARIANTS_SUCCESSFUL,
    number_of_problems_with_chinese_variants,  \* <<>> while unbound, else <<n>>
    idx,            \* position of the `for ... in table` loop
    outputOpened,   \* open(outputfilename, 'w') has been executed
    outputfile,     \* the strings written to the output file, in order
    pc,             \* "read", "normalize", "write", "done", "aborted"
    error,          \* the exception that ended the run, "" if none
    merged          \* history: the table as the reading loop left it

vars == <<inputfile, lineno, head, tail, table, reading_head, reading_table,
          warnings, IMPORT_CHINESE_VARIANTS_SUCCESSFUL,
          number_of_problems_with_chinese_variants, idx, outputOpened,
          outputfile, pc, error, merged>>

(***************************************************************************)
(* Bounds of the explored inputs.                                          *)
(***************************************************************************)
MaxBody == 3    \* most table lines in an input file with the plain frame
MaxFrame == 1   \* most lines before BEGIN_TABLE / after END_TABLE

(***************************************************************************)
(* String helpers (Python str methods).                                    *)
(***************************************************************************)
BEGIN_TABLE == <<66, 69, 71, 73, 78, 95, 84, 65, 66, 76, 69>>
END_TABLE == <<69, 78, 68, 95, 84, 65, 66, 76, 69>>

\* str.startswith
StartsWith(s, p) == Len(s) >= Len(p) /\ SubSeq(s, 1, Len(p)) = p

\* the characters str.strip() removes (Py_UNICODE_ISSPACE)
Whitespace == (9..13) \cup (28..32) \cup {133, 160, 5760} \cup (8192..8202)
              \cup {8232, 8233, 8239, 8287, 12288}

RECURSIVE LStrip(_)
LStrip(s) == IF s # <<>> /\ Head(s) \in Whitespace THEN LStrip(Tail(s)) ELSE s

RECURSIVE RStrip(_)
RStrip(s) ==
    IF s # <<>> /\ s[Len(s)] \in Whitespace
    THEN RStrip(SubSeq(s, 1, Len(s) - 1)) ELSE s

\* str.strip()
Strip(s) == RStrip(LStrip(s))

\* str.split('\t'): always at least one field
RECURSIVE SplitTab(_)
SplitTab(s) ==
    IF \E i \in 1..Len(s) : s[i] = 9
    THEN LET i == CHOOSE j \in 1..Len(s) :
                      s[j] = 9 /\ \A k \in 1..(j - 1) : s[k] # 9
         IN <<SubSeq(s, 1, i - 1)>> \o SplitTab(SubSeq(s, i + 1, Len(s)))
    ELSE <<s>>

Digits == 48..57

\* int(str) accepts: surrounding whitespace, an optional sign, decimal digits
\* (the underscore separators int() also accepts are not in the inputs explored)
IsIntLiteral(s) ==
    LET t == Strip(s)
        u == IF t # <<>> /\ Head(t) \in {43, 45} THEN Tail(t) ELSE t
    IN u # <<>> /\ \A i \in 1..Len(u) : u[i] \in Digits

RECURSIVE DigitsValue(_)
DigitsValue(u) ==
    IF u = <<>> THEN 0
    ELSE 10 * DigitsValue(SubSeq(u, 1, Len(u) - 1)) + (u[Len(u)] - 48)

\* int(str) of a string IsIntLiteral accepts; int(int) is the identity
ParseInt(s) ==
    LET t == Strip(s)
    IN IF Head(t) = 45 THEN 0 - DigitsValue(Tail(t))
       ELSE IF Head(t) = 43 THEN DigitsValue(Tail(t))
       ELSE DigitsValue(t)

RECURSIVE NatToStr(_)
NatToStr(n) ==
    IF n < 10 THEN <<48 + n>> ELSE NatToStr(n \div 10) \o <<48 + (n % 10)>>

\* '%s' % an int
FormatInt(n) == IF n < 0 THEN <<45>> \o NatToStr(0 - n) ELSE NatToStr(n)

\* max(a, b) of two ints
Max(a, b) == IF a >= b THEN a ELSE b

(***************************************************************************)
(* The table: Dict[(input, chinese_character)] -> {'weight', 'comment'}.   *)
(* A Python dict iterates in insertion order, so the table is the          *)
(* sequence of its entries in insertion order; no two entries share the    *)
(* pair (input, chinese_character).                                        *)
(***************************************************************************)
\* (input, chinese_character) in table
InTable(t, inp, ch) ==
    \E i \in 1..Len(t) : t[i].input = inp /\ t[i].chinese_character = ch

\* the position of the entry of key (inp, ch), which is in t
IndexOf(t, inp, ch) ==
    CHOOSE i \in 1..Len(t) : t[i].input = inp /\ t[i].chinese_character = ch

\* stripped_line = line.strip().split('\t'), padded with one '' below 4 fields
StrippedLine(line) ==
    LET f == SplitTab(Strip(line))
    IN IF Len(f) < 4 THEN Append(f, <<>>) ELSE f

\* the tuple assignment (input, chinese_character, weight, comment) = ...
\* raises ValueError unless there are exactly four values
Unpacks(line) == Len(StrippedLine(line)) = 4

(***************************************************************************)
(* Input files explored.                                                   *)
(***************************************************************************)
Rec(k, ch, w) == k \o <<9>> \o ch \o <<9>> \o w \o <<10>>
RecC(k, ch, w, c) == k \o <<9>> \o ch \o <<9>> \o w \o <<9>> \o c \o <<10>>

BodyLines ==
    LET x == <<120>>  xa == <<120, 97>>  a == <<97>>  ab == <<97, 98>>
        ax == <<97, 120>>  abc == <<97, 98, 99>>
        c1 == <<20013>>  c2 == <<23383>>
        w800 == <<56, 48, 48>>  w900 == <<57, 48, 48>>
        w1000 == <<49, 48, 48, 48>>
    IN { Rec(x, c1, w800), Rec(x, c1, w900), Rec(xa, c1, w1000),
         Rec(a, c1, w800), Rec(a, c2, w1000),
         Rec(ab, c1, w1000), Rec(ax, c1, w1000), Rec(abc, c1, w1000),
         \* a comment, and a weight int() and '%s' do not round-trip
         RecC(a, c2, <<48, 56, 48, 48>>, <<35>>),
         \* malformed: two fields, non-integer weight, two code points in
         \* the character field, five fields
         a \o <<9>> \o c1 \o <<10>>,
         Rec(a, c1, <<119>>),
         Rec(a, c1 \o c2, w1000),
         RecC(a, c1, w1000, <<35, 9, 35>>) }

CommentLine == <<35, 104, 10>>                 \* "#h\n"
BeginLines == { BEGIN_TABLE \o <<10>>, BEGIN_TABLE \o <<32, 113, 10>> }
EndLines == { END_TABLE \o <<10>>, END_TABLE \o <<32, 113, 10>> }
HeadLines == { CommentLine, END_TABLE \o <<10>> }
TailLines == { BEGIN_TABLE \o <<10>>, END_TABLE \o <<10>>,
               Rec(<<97>>, <<20013>>, <<49, 48, 48, 48>>) }
FrameBodyLines == { Rec(<<120>>, <<20013>>, <<49, 48, 48, 48>>),
                    Rec(<<97>>, <<20013>>, <<49, 48, 48, 48>>) }

SeqsUpTo(S, n) == UNION { [1..k -> S] : k \in 0..n }
Opt(S) == { <<>> } \cup { <<l>> : l \in S }

\* the plain frame around every table of up to MaxBody lines
PlainFiles ==
    { <<CommentLine, BEGIN_TABLE \o <<10>>>> \o body \o <<END_TABLE \o <<10>>>> :
        body \in SeqsUpTo(BodyLines, MaxBody) }

\* every frame (markers present or missing, lines before and after) around
\* a table of at most one line
FrameFiles ==
    { f[1] \o f[2] \o f[3] \o f[4] \o f[5] :
        f \in SeqsUpTo(HeadLines, MaxFrame) \X Opt(BeginLines)
              \X Opt(FrameBodyLines) \X Opt(EndLines)
              \X SeqsUpTo(TailLines, MaxFrame) }

InputFiles == PlainFiles \cup FrameFiles

(***************************************************************************)
(* The state at the first iteration of the reading loop (lines 83-91), and *)
(* the outcome of the import at lines 36-41.                               *)
(***************************************************************************)
Init ==
    /\ inputfile \in InputFiles
    /\ IMPORT_CHINESE_VARIANTS_SUCCESSFUL \in BOOLEAN
    /\ lineno = 1
    /\ head = <<>>
    /\ tail = <<>>
    /\ table = <<>>
    /\ reading_head = TRUE
    /\ reading_table = TRUE
    /\ warnings = <<>>
    /\ number_of_problems_with_chinese_variants = <<>>
    /\ idx = 0
    /\ outputOpened = FALSE
    /\ outputfile = <<>>
    /\ pc = "read"
    /\ error = ""
    /\ merged = <<>>

\* an uncaught exception ends the run
Raise(e) ==
    /\ pc' = "aborted"
    /\ error' = e

(***************************************************************************)
(* The reading loop, lines 91-125: one action per way through its body.    *)
(***************************************************************************)
HasLine == pc = "read" /\ lineno <= Len(inputfile)

\* lines 92-94
ReadHeadLine ==
    /\ HasLine
    /\ reading_head /\ ~StartsWith(inputfile[lineno], BEGIN_TABLE)
    /\ head' = Append(head, inputfile[lineno])
    /\ lineno' = lineno + 1
    /\ UNCHANGED <<inputfile, tail, table, reading_head, reading_table,
                   warnings, IMPORT_CHINESE_VARIANTS_SUCCESSFUL,
                   number_of_problems_with_chinese_variants, idx,
                   outputOpened, outputfile, pc, error, merged>>

\* lines 95-99
ReadBeginTable ==
    /\ HasLine
    /\ reading_head /\ StartsWith(inputfile[lineno], BEGIN_TABLE)
    /\ head' = Append(head, BEGIN_TABLE \o <<10>>)
    /\ reading_head' = FALSE
    /\ lineno' = lineno + 1
    /\ UNCHANGED <<inputfile, tail, table, reading_table,
                   warnings, IMPORT_CHINESE_VARIANTS_SUCCESSFUL,
                   number_of_problems_with_chinese_variants, idx,
                   outputOpened, outputfile, pc, error, merged>>

InTableRegion ==
    /\ HasLine
    /\ ~reading_head
    /\ reading_table /\ ~StartsWith(inputfile[lineno], END_TABLE)

\* lines 100-107, the unpacking raises ValueError
ReadLineWrongFieldCount ==
    /\ InTableRegion
    /\ ~Unpacks(inputfile[lineno])
    /\ Raise("ValueError")
    /\ UNCHANGED <<inputfile, lineno, head, tail, table, reading_head,
                   reading_table, warnings, IMPORT_CHINESE_VARIANTS_SUCCESSFUL,
                   number_of_problems_with_chinese_variants, idx,
                   outputOpened, outputfile, merged>>

\* lines 100-108 and 117-121: a new key
ReadNewRecord ==
    /\ InTableRegion
    /\ Unpacks(inputfile[lineno])
    /\ LET f == StrippedLine(inputfile[lineno])
       IN /\ ~InTable(table, f[1], f[2])
          /\ IF IsIntLiteral(f[3])
             THEN /\ table' = Append(table,
                        [input |-> f[1], chinese_character |-> f[2],
                         weight |-> ParseInt(f[3]), comment |-> f[4]])
                  /\ lineno' = lineno + 1
                  /\ UNCHANGED <<pc, error>>
             ELSE /\ Raise("ValueError")
                  /\ UNCHANGED <<table, lineno>>
    /\ UNCHANGED <<inputfile, head, tail, reading_head, reading_table,
                   warnings, IMPORT_CHINESE_VARIANTS_SUCCESSFUL,
                   number_of_problems_with_chinese_variants, idx,
                   outputOpened, outputfile, merged>>

\* variant of MergedWeight: the later line wins
MergedWeightLast(weight, first_weight) == ParseInt(weight)

\* the new weight of a key seen again, line 114-115
MergedWeight(weight, first_weight) == Max(ParseInt(weight), first_weight)

\* lines 100-116: the key is in the table already
ReadDuplicate ==
    /\ InTableRegion
    /\ Unpacks(inputfile[lineno])
    /\ LET f == StrippedLine(inputfile[lineno])
       IN /\ InTable(table, f[1], f[2])
          /\ LET i == IndexOf(table, f[1], f[2])
                 first_weight == table[i].weight
             IN /\ warnings' = Append(warnings,
                        [input |-> f[1], chinese_character |-> f[2],
                         first_weight |-> first_weight, weight |-> f[3]])
                /\ IF IsIntLiteral(f[3])
                   THEN /\ table' = [table EXCEPT ![i].weight =
                                        MergedWeight(f[3], first_weight)]
                        /\ lineno' = lineno + 1
                        /\ UNCHANGED <<pc, error>>
                   ELSE /\ Raise("ValueError")
                        /\ UNCHANGED <<table, lineno>>
    /\ UNCHANGED <<inputfile, head, tail, reading_head, reading_table,
                   IMPORT_CHINESE_VARIANTS_SUCCESSFUL,
                   number_of_problems_with_chinese_variants, idx,
                   outputOpened, outputfile, merged>>

\* variant of ReadEndTable: the marker line itself is not kept
ReadEndTableDropsMarker ==
    /\ HasLine
    /\ ~reading_head
    /\ reading_table /\ StartsWith(inputfile[lineno], END_TABLE)
    /\ reading_table' = FALSE
    /\ lineno' = lineno + 1
    /\ UNCHANGED <<inputfile, head, tail, table, reading_head,
                   warnings, IMPORT_CHINESE_VARIANTS_SUCCESSFUL,
                   number_of_problems_with_chinese_variants, idx,
                   outputOpened, outputfile, pc, error, merged>>

\* lines 122-125, the first line that starts with END_TABLE
ReadEndTable ==
    /\ HasLine
    /\ ~reading_head
    /\ reading_table /\ StartsWith(inputfile[lineno], END_TABLE)
    /\ reading_table' = FALSE
    /\ tail' = Append(tail, inputfile[lineno])
    /\ lineno' = lineno + 1
    /\ UNCHANGED <<inputfile, head, table, reading_head,
                   warnings, IMPORT_CHINESE_VARIANTS_SUCCESSFUL,
                   number_of_problems_with_chinese_variants, idx,
                   outputOpened, outputfile, pc, error, merged>>

\* line 125 once reading_table is False
ReadTailLine ==
    /\ HasLine
    /\ ~reading_head
    /\ ~reading_table
    /\ tail' = Append(tail, inputfile[lineno])
    /\ lineno' = lineno + 1
    /\ UNCHANGED <<inputfile, head, table, reading_head, reading_table,
                   warnings, IMPORT_CHINESE_VARIANTS_SUCCESSFUL,
                   number_of_problems_with_chinese_variants, idx,
                   outputOpened, outputfile, pc, error, merged>>

\* the file is exhausted: the `with` block ends and the loop of line 126 starts
EndOfInput ==
    /\ pc = "read" /\ lineno > Len(inputfile)
    /\ pc' = "normalize"
    /\ idx' = 1
    /\ merged' = table
    /\ UNCHANGED <<inputfile, lineno, head, tail, table, reading_head,
                   reading_table, warnings, IMPORT_CHINESE_VARIANTS_SUCCESSFUL,
                   number_of_problems_with_chinese_variants,
                   outputOpened, outputfile, error>>

(***************************************************************************)
(* The loop over the table, lines 126-169.                                 *)
(***************************************************************************)
\* variant of IsUnicodeCharacter: no check of the argument
IsUnicodeCharacterAny(ch) == TRUE

\* unicodedata.name(chr, '') raises TypeError unless chr is one code point
IsUnicodeCharacter(ch) == Len(ch) = 1

valid_input_chars_without_x ==
    <<97, 98, 99, 100, 101, 102, 103, 104, 105, 106, 107, 108, 109, 110,
      111, 112, 113, 114, 115, 116, 117, 118, 119, 121, 122>>

\* variant of CandidateInputs: the inner loop over input2 is missing
CandidateInputsSingleLetters ==
    LET v == valid_input_chars_without_x
    IN { <<v[i]>> : i \in 1..Len(v) }

\* variant of CandidateInputs: the loops run over all of a-z
CandidateInputsWithX ==
    { <<c>> : c \in 97..122 } \cup { <<c, d>> : c \in 97..122, d \in 97..122 }

\* the keys input1 and input1 + input2 the two nested loops look up
CandidateInputs ==
    LET v == valid_input_chars_without_x
    IN { <<v[i]>> : i \in 1..Len(v) }
       \cup { <<v[i], v[j]>> : i \in 1..Len(v), j \in 1..Len(v) }

\* variant of DemoteSpellings: the weight is lowered by 100, not set to 900
DemoteSpellingsSubtract(t, ch) ==
    [k \in 1..Len(t) |->
        IF t[k].chinese_character = ch /\ t[k].input \in CandidateInputs
        THEN [t[k] EXCEPT !.weight = @ - 100]
        ELSE t[k]]

\* lines 163-169: every candidate key present with this character gets
\* weight 900 (every assignment writes the same constant, so the order of
\* the lookups does not show in the result)
DemoteSpellings(t, ch) ==
    [k \in 1..Len(t) |->
        IF t[k].chinese_character = ch /\ t[k].input \in CandidateInputs
        THEN [t[k] EXCEPT !.weight = 900]
        ELSE t[k]]

\* lines 162-169 for the entry at position i
RewriteFor(t, i) ==
    IF StartsWith(t[i].input, <<120>>)
    THEN DemoteSpellings(t, t[i].chinese_character)
    ELSE t

\* the weight rewrites of the whole loop, from position i on
RECURSIVE NormalizeFrom(_, _)
NormalizeFrom(t, i) ==
    IF i > Len(t) THEN t ELSE NormalizeFrom(RewriteFor(t, i), i + 1)

HasRecord == pc = "normalize" /\ idx <= Len(table)

\* line 127 raises TypeError
VisitRecordNotACharacter ==
    /\ HasRecord
    /\ ~IsUnicodeCharacter(table[idx].chinese_character)
    /\ Raise("TypeError")
    /\ UNCHANGED <<inputfile, lineno, head, tail, table, reading_head,
                   reading_table, warnings, IMPORT_CHINESE_VARIANTS_SUCCESSFUL,
                   number_of_problems_with_chinese_variants, idx,
                   outputOpened, outputfile, merged>>

\* lines 127-169 with the chinese_variants module absent
VisitRecord ==
    /\ HasRecord
    /\ IsUnicodeCharacter(table[idx].chinese_character)
    /\ ~IMPORT_CHINESE_VARIANTS_SUCCESSFUL
    /\ table' = RewriteFor(table, idx)
    /\ idx' = idx + 1
    /\ UNCHANGED <<inputfile, lineno, head, tail, reading_head,
                   reading_table, warnings, IMPORT_CHINESE_VARIANTS_SUCCESSFUL,
                   number_of_problems_with_chinese_variants,
                   outputOpened, outputfile, pc, error, merged>>

\* lines 127-169 with the module present: detect_chinese_category answers
\* 1 or something else, and for 1 the page fetched says whether the
\* character is used in Taiwan
VisitRecordWithVariants ==
    /\ HasRecord
    /\ IsUnicodeCharacter(table[idx].chinese_character)
    /\ IMPORT_CHINESE_VARIANTS_SUCCESSFUL
    /\ \E category \in {0, 1}, used_in_taiwan \in BOOLEAN :
          number_of_problems_with_chinese_variants' =
              IF category = 1 /\ used_in_taiwan THEN <<1>> ELSE <<0>>
    /\ table' = RewriteFor(table, idx)
    /\ idx' = idx + 1
    /\ UNCHANGED <<inputfile, lineno, head, tail, reading_head,
                   reading_table, warnings, IMPORT_CHINESE_VARIANTS_SUCCESSFUL,
                   outputOpened, outputfile, pc, error, merged>>

\* lines 143-153: category 1 and urllib.request.urlopen raises URLError
VisitRecordLookupFails ==
    /\ HasRecord
    /\ IsUnicodeCharacter(table[idx].chinese_character)
    /\ IMPORT_CHINESE_VARIANTS_SUCCESSFUL
    /\ number_of_problems_with_chinese_variants' = <<0>>
    /\ Raise("URLError")
    /\ UNCHANGED <<inputfile, lineno, head, tail, table, reading_head,
                   reading_table, warnings, IMPORT_CHINESE_VARIANTS_SUCCESSFUL,
                   idx, outputOpened, outputfile, merged>>

\* lines 170-173 after the loop: nothing to log, or the name is bound
LogNumberOfProblems ==
    /\ pc = "normalize" /\ idx > Len(table)
    /\ \/ ~IMPORT_CHINESE_VARIANTS_SUCCESSFUL
       \/ number_of_problems_with_chinese_variants # <<>>
    /\ pc' = "write"
    /\ UNCHANGED <<inputfile, lineno, head, tail, table, reading_head,
                   reading_table, warnings, IMPORT_CHINESE_VARIANTS_SUCCESSFUL,
                   number_of_problems_with_chinese_variants, idx,
                   outputOpened, outputfile, error, merged>>

\* lines 170-173 when the loop body never ran: the local name assigned only
\* at line 143 is read unbound
LogNumberOfProblemsUnbound ==
    /\ pc = "normalize" /\ idx > Len(table)
    /\ IMPORT_CHINESE_VARIANTS_SUCCESSFUL
    /\ number_of_problems_with_chinese_variants = <<>>
    /\ Raise("UnboundLocalError")
    /\ UNCHANGED <<inputfile, lineno, head, tail, table, reading_head,
                   reading_table, warnings, IMPORT_CHINESE_VARIANTS_SUCCESSFUL,
                   number_of_problems_with_chinese_variants, idx,
                   outputOpened, outputfile, merged>>

(***************************************************************************)
(* The writer, lines 174-192.                                              *)
(***************************************************************************)
\* str < str: lexicographic on code points
RECURSIVE StrLess(_, _)
StrLess(s, t) ==
    IF t = <<>> THEN FALSE
    ELSE IF s = <<>> THEN TRUE
    ELSE IF Head(s) # Head(t) THEN Head(s) < Head(t)
    ELSE StrLess(Tail(s), Tail(t))

\* ord(c) of a one-character string
Ord(ch) == ch[1]

\* variant of SortKey: the weight is not negated
SortKeyAscendingWeight(e) == <<e.input, e.weight, Ord(e.chinese_character)>>

\* the key of the sort, lines 179-183
SortKey(e) == <<e.input, 0 - e.weight, Ord(e.chinese_character)>>

\* tuple < tuple on two sort keys
KeyLess(k1, k2) ==
    \/ StrLess(k1[1], k2[1])
    \/ k1[1] = k2[1] /\ k1[2] < k2[2]
    \/ k1[1] = k2[1] /\ k1[2] = k2[2] /\ k1[3] < k2[3]

\* e put into the sorted sequence s behind every element not greater
RECURSIVE InsertSorted(_, _)
InsertSorted(s, e) ==
    IF s = <<>> THEN <<e>>
    ELSE IF KeyLess(SortKey(e), SortKey(s[Len(s)]))
         THEN Append(InsertSorted(SubSeq(s, 1, Len(s) - 1), e), s[Len(s)])
         ELSE Append(s, e)

\* sorted(table.items(), key=...): a stable sort
RECURSIVE Sorted(_)
Sorted(t) ==
    IF t = <<>> THEN <<>>
    ELSE InsertSorted(Sorted(SubSeq(t, 1, Len(t) - 1)), t[Len(t)])

\* lines 184-190
FormatRecord(e) ==
    IF e.comment # <<>>
    THEN e.input \o <<9>> \o e.chinese_character \o <<9>>
         \o FormatInt(e.weight) \o <<9>> \o e.comment \o <<10>>
    ELSE e.input \o <<9>> \o e.chinese_character \o <<9>>
         \o FormatInt(e.weight) \o <<10>>

\* what lines 176-192 write, one string per write call
WrittenLines(h, t, tl) ==
    LET s == Sorted(t)
    IN h \o [i \in 1..Len(s) |-> FormatRecord(s[i])] \o tl

WriteOutput ==
    /\ pc = "write"
    /\ outputOpened' = TRUE
    /\ outputfile' = WrittenLines(head, table, tail)
    /\ pc' = "done"
    /\ UNCHANGED <<inputfile, lineno, head, tail, table, reading_head,
                   reading_table, warnings, IMPORT_CHINESE_VARIANTS_SUCCESSFUL,
                   number_of_problems_with_chinese_variants, idx,
                   error, merged>>

Next ==
    \/ ReadHeadLine
    \/ ReadBeginTable
    \/ ReadLineWrongFieldCount
    \/ ReadNewRecord
    \/ ReadDuplicate
    \/ ReadEndTable
    \/ ReadTailLine
    \/ EndOfInput
    \/ VisitRecordNotACharacter
    \/ VisitRecord
    \/ VisitRecordWithVariants
    \/ VisitRecordLookupFails
    \/ LogNumberOfProblems
    \/ LogNumberOfProblemsUnbound
    \/ WriteOutput

Spec == Init /\ [][Next]_vars

(***************************************************************************)
(* Vocabulary of the properties, stated on files and records and not on    *)
(* the steps of the program.                                               *)
(***************************************************************************)
\* one or two letters of a-z without x
IsAlphaKey(k) ==
    /\ Len(k) \in {1, 2}
    /\ \A i \in 1..Len(k) : k[i] \in (97..122) \ {120}

XPrefixed(k) == k # <<>> /\ k[1] = 120

\* some record of the character has a key that starts with x
HasXSpelling(t, ch) ==
    \E i \in 1..Len(t) : t[i].chinese_character = ch /\ XPrefixed(t[i].input)

\* index of the first line starting with BEGIN_TABLE, 0 if there is none
FirstBegin(f) ==
    IF \E i \in 1..Len(f) : StartsWith(f[i], BEGIN_TABLE)
    THEN CHOOSE i \in 1..Len(f) :
            /\ StartsWith(f[i], BEGIN_TABLE)
            /\ \A j \in 1..(i - 1) : ~StartsWith(f[j], BEGIN_TABLE)
    ELSE 0

\* index of the first line after line b starting with END_TABLE,
\* Len(f) + 1 if there is none
FirstEndAfter(f, b) ==
    IF \E i \in (b + 1)..Len(f) : StartsWith(f[i], END_TABLE)
    THEN CHOOSE i \in (b + 1)..Len(f) :
            /\ StartsWith(f[i], END_TABLE)
            /\ \A j \in (b + 1)..(i - 1) : ~StartsWith(f[j], END_TABLE)
    ELSE Len(f) + 1

\* the indices of the lines of the table region
TableRegion(f) ==
    IF FirstBegin(f) = 0 THEN {}
    ELSE (FirstBegin(f) + 1)..(FirstEndAfter(f, FirstBegin(f)) - 1)

\* the tab-separated fields of a line
Fields(line) == SplitTab(Strip(line))

\* wrong field count, non-integer weight, or a character field that is not
\* one code point
Malformed(line) ==
    \/ Len(Fields(line)) \notin {3, 4}
    \/ ~IsIntLiteral(Fields(line)[3])
    \/ Len(Fields(line)[2]) # 1

RegionHasMalformed == \E i \in TableRegion(inputfile) : Malformed(inputfile[i])

ReadFinished == pc \in {"normalize", "write", "done"}
NormalizeFinished == pc \in {"write", "done"}

SetMax(S) == CHOOSE m \in S : \A n \in S : n <= m

\* s < t, lexicographic on code points
LexLess(s, t) ==
    \E n \in 0..Len(s) :
        /\ n <= Len(t)
        /\ SubSeq(s, 1, n) = SubSeq(t, 1, n)
        /\ \/ n = Len(s) /\ n < Len(t)
           \/ n < Len(s) /\ n < Len(t) /\ s[n + 1] < t[n + 1]

\* the table body of the output file
OutputBody ==
    SubSeq(outputfile, Len(head) + 1, Len(outputfile) - Len(tail))

(***************************************************************************)
(* Properties.                                                             *)
(***************************************************************************)

\* C1: once the loop over the table has ended, for every character that has
\* a record whose key starts with x, every record of that character whose
\* key is one or two letters of a-z without x has weight 900, whatever its
\* weight was and wherever it stands in the table relative to the x record.
C1_XDemotion ==
    NormalizeFinished =>
        \A i \in 1..Len(table) :
            ( /\ HasXSpelling(table, table[i].chinese_character)
              /\ IsAlphaKey(table[i].input) )
            => table[i].weight = 900

\* a one-letter spelling read before the x record (800 before) and a
\* two-letter spelling read after it (1000 before), both now at 900
C1_Witness ==
    /\ pc = "done"
    /\ \E i, j, k \in 1..Len(table) :
          /\ i < j /\ j < k
          /\ XPrefixed(table[j].input)
          /\ table[i].chinese_character = table[j].chinese_character
          /\ table[k].chinese_character = table[j].chinese_character
          /\ Len(table[i].input) = 1 /\ IsAlphaKey(table[i].input)
          /\ Len(table[k].input) = 2 /\ IsAlphaKey(table[k].input)
          /\ merged[i].weight = 800 /\ merged[k].weight = 1000
          /\ table[i].weight = 900 /\ table[k].weight = 900

\* C2: when the reading loop has ended, every (inputKey, character) pair of
\* the lines of the table region has exactly one record, the weight of that
\* record is the maximum of the weights of all lines with the pair, one
\* warning was logged for each line with the pair after the first, and there
\* is no other record and no other warning.
C2_MergeByMax ==
    ReadFinished =>
        LET R == TableRegion(inputfile)
            Pair(i) == <<Fields(inputfile[i])[1], Fields(inputfile[i])[2]>>
            Occ(p) == { i \in R : Pair(i) = p }
            Recs(p) == { j \in 1..Len(merged) :
                           <<merged[j].input, merged[j].chinese_character>> = p }
            Warn(p) == { w \in 1..Len(warnings) :
                           <<warnings[w].input, warnings[w].chinese_character>> = p }
        IN /\ \A i \in R :
                /\ Cardinality(Recs(Pair(i))) = 1
                /\ \A j \in Recs(Pair(i)) :
                      merged[j].weight =
                          SetMax({ ParseInt(Fields(inputfile[l])[3]) : l \in Occ(Pair(i)) })
                /\ Cardinality(Warn(Pair(i))) = Cardinality(Occ(Pair(i))) - 1
           /\ Len(merged) = Cardinality({ Pair(i) : i \in R })
           /\ Len(warnings) = Cardinality(R) - Len(merged)

\* three lines with one pair and the weights 800, 900, 800: one record of
\* weight 900 and two warnings
C2_Witness ==
    /\ ReadFinished
    /\ Len(merged) = 1 /\ merged[1].weight = 900
    /\ Len(warnings) = 2
    /\ warnings[1].first_weight = 800
    /\ warnings[2].first_weight = 900 /\ warnings[2].weight = <<56, 48, 48>>

C4_BodySorted ==
    pc = "done" =>
        LET B == OutputBody
            F(i) == Fields(B[i])
            Before(p, q) ==
                \/ LexLess(p[1], q[1])
                \/ p[1] = q[1] /\ ParseInt(p[3]) > ParseInt(q[3])
                \/ p[1] = q[1] /\ ParseInt(p[3]) = ParseInt(q[3])
                   /\ p[2][1] < q[2][1]
        IN /\ Len(B) = Len(table)
           /\ { <<F(i)[1], F(i)[2], ParseInt(F(i)[3])>> : i \in 1..Len(B) }
              = { <<table[j].input, table[j].chinese_character, table[j].weight>> :
                    j \in 1..Len(table) }
           /\ \A i \in 1..(Len(B) - 1) : Before(F(i), F(i + 1))

\* three records written in the reverse of the order they were read: the
\* key read first is the greatest, and of the two records of the other key
\* the heavier goes first although its code point is the greater
C4_Witness ==
    /\ pc = "done"
    /\ Len(table) = 3
    /\ LexLess(table[2].input, table[1].input)
    /\ table[2].input = table[3].input
    /\ table[2].weight < table[3].weight
    /\ table[2].chinese_character[1] < table[3].chinese_character[1]
    /\ OutputBody = <<FormatRecord(table[3]), FormatRecord(table[2]),
                      FormatRecord(table[1])>>

\* C5: the output file starts with the lines before the first line starting
\* with BEGIN_TABLE, unchanged, then the line "BEGIN_TABLE"; it ends with
\* the lines from the first later line starting with END_TABLE on, unchanged;
\* between them is one line per record, and every record comes from a line
\* between the two markers.  A file without a BEGIN_TABLE line is written
\* back unchanged.
C5_HeadTailRoundTrip ==
    pc = "done" =>
        LET b == FirstBegin(inputfile)
            n == Len(inputfile)
            e == FirstEndAfter(inputfile, b)
            m == Len(outputfile)
        IN IF b = 0 THEN outputfile = inputfile
           ELSE /\ m = b + Len(table) + (n - e + 1)
                /\ SubSeq(outputfile, 1, b)
                   = Append(SubSeq(inputfile, 1, b - 1), BEGIN_TABLE \o <<10>>)
                /\ SubSeq(outputfile, m - (n - e), m) = SubSeq(inputfile, e, n)
                /\ \A j \in 1..Len(table) :
                      \E i \in TableRegion(inputfile) :
                          /\ Fields(inputfile[i])[1] = table[j].input
                          /\ Fields(inputfile[i])[2] = table[j].chinese_character

\* a line before a BEGIN_TABLE line that carries more text, a record, an
\* END_TABLE line that carries more text, and after it a line that reads as
\* a record of a key the table does not hold
C5_Witness ==
    /\ pc = "done"
    /\ LET b == FirstBegin(inputfile)
           e == FirstEndAfter(inputfile, b)
       IN /\ b = 2
          /\ inputfile[b] # BEGIN_TABLE \o <<10>>
          /\ Len(table) = 1
          /\ e = 4 /\ Len(inputfile) = 5
          /\ inputfile[e] # END_TABLE \o <<10>>
          /\ ~Malformed(inputfile[5])
          /\ ~InTable(table, Fields(inputfile[5])[1], Fields(inputfile[5])[2])

\* C6: a malformed line in the table region (a field count other than 3 or
\* 4, a weight that is no integer, a character field that is not one code
\* point) keeps the run from ever reaching the writer, and the output file
\* is opened and written only after both loops have run to their end
\* without an exception.
C6_NoOutputOnMalformed ==
    /\ RegionHasMalformed =>
          /\ pc \notin {"write", "done"}
          /\ ~outputOpened /\ outputfile = <<>>
    /\ (outputOpened \/ outputfile # <<>>) =>
          /\ pc = "done" /\ error = ""
          /\ lineno > Len(inputfile) /\ idx > Len(table)

\* the run ended by the TypeError of a two-code-point character field,
\* raised after the record before it had been visited, the output unopened
C6_Witness ==
    /\ pc = "aborted" /\ error = "TypeError"
    /\ RegionHasMalformed
    /\ idx = 2
    /\ ~IsUnicodeCharacter(table[idx].chinese_character)
    /\ ~outputOpened

\* C7 as stated: after the loop over the table, for every character, every
\* record with an x-prefixed key has a weight not lower than every record of
\* that character whose key does not start with x.
C7_XNeverOutranks ==
    NormalizeFinished =>
        \A i, j \in 1..Len(table) :
            ( /\ XPrefixed(table[i].input)
              /\ ~XPrefixed(table[j].input)
              /\ table[j].chinese_character = table[i].chinese_character )
            => table[i].weight >= table[j].weight

\* C7 amended: after the loop over the table, every record with an
\* x-prefixed key and a weight of at least 900 has a weight not lower than
\* every record of that character whose key is one or two letters of a-z
\* without x.
C7_XNotBelowDemoted ==
    NormalizeFinished =>
        \A i, j \in 1..Len(table) :
            ( /\ XPrefixed(table[i].input)
              /\ table[i].weight >= 900
              /\ IsAlphaKey(table[j].input)
              /\ table[j].chinese_character = table[i].chinese_character )
            => table[i].weight >= table[j].weight

\* an x record of weight 900 and a two-letter spelling of the character that
\* was read with weight 1000
C7_Witness ==
    /\ pc = "done"
    /\ \E i, j \in 1..Len(table) :
          /\ XPrefixed(table[i].input) /\ table[i].weight = 900
          /\ Len(table[j].input) = 2 /\ IsAlphaKey(table[j].input)
          /\ table[j].chinese_character = table[i].chinese_character
          /\ merged[j].weight = 1000
          /\ table[j].weight = 900

\* C8: after the loop over the table, for every record whose key starts with
\* x, every record of the same character whose key does not start with x has
\* weight 900, whatever else its key holds and however long it is.
C8_EveryOtherSpellingDemoted ==
    NormalizeFinished =>
        \A i, j \in 1..Len(table) :
            ( /\ XPrefixed(table[i].input)
              /\ ~XPrefixed(table[j].input)
              /\ table[j].chinese_character = table[i].chinese_character )
            => table[j].weight = 900

\* C9: the diagnostics never end the run, and what is written is what the
\* weight rewrites alone make of the table the reading loop left.
C9_DiagnosticsNeverBlock ==
    /\ pc = "aborted" => error \notin {"URLError", "UnboundLocalError"}
    /\ pc = "done" =>
          outputfile = WrittenLines(head, NormalizeFrom(merged, 1), tail)

\* C10: a second pass of the weight rewrites over the table the first pass
\* left changes nothing, the first pass being the one the loop performs.
C10_Idempotent ==
    ReadFinished =>
        LET once == NormalizeFrom(merged, 1)
        IN /\ NormalizeFrom(once, 1) = once
           /\ NormalizeFinished => table = once

\* a table with two x-prefixed records of one character, so that a spelling
\* of that character is rewritten twice in the first pass
C10_Witness ==
    /\ pc = "done"
    /\ \E i, j, k \in 1..Len(table) :
          /\ i # j
          /\ XPrefixed(table[i].input) /\ XPrefixed(table[j].input)
          /\ table[i].chinese_character = table[k].chinese_character
          /\ table[j].chinese_character = table[k].chinese_character
          /\ IsAlphaKey(table[k].input)
          /\ merged[k].weight # 900 /\ table[k].weight = 900

====
